---- MODULE Spec2Model ----
(***************************************************************************)
(* Order placement of the cafe management application                      *)
(* (src/cafe_management.py): the place_order request handler running       *)
(* concurrently with itself and with the administrative handlers, over the *)
(* four SQLite tables menu_items, inventory, orders and order_items.       *)
(*                                                                         *)
(* Every execute_db call commits on its own (db.commit() at line 99), so   *)
(* each execute_db is one atomic step and the database state between two   *)
(* of them is visible to every other request.  Every query_db is one read. *)
(*                                                                         *)
(* Prices are REAL columns holding whole amounts (the seeded 80.0, 120.0); *)
(* on whole amounts of this size float arithmetic is exact, so prices and  *)
(* totals are modelled as integers.  Item names and descriptions and the   *)
(* created_at stamp decide nothing here and are left out: the flash        *)
(* message that names an item is modelled by the item's id.                *)
(***************************************************************************)
EXTENDS Integers, Sequences, FiniteSets, TLC

\* ---------------------------------------------------------------- bounds

\* Number of place_order requests in flight (each runs once; they are
\* numbered in their order of arrival).
NumProcs == 2
\* Number of administrative requests served.
MaxAdminOps == 1

\* Quantity seeded for every sample item (seed_if_empty).
InitQty == 50

Procs == 1..NumProcs
Skus == {"ESP-01", "CAP-01", "SND-01"}
\* Values a qty_<id> form field takes (0 also stands for an absent field).
\* A form holds a field for every id handed out so far; a field for an id
\* never handed out is read by nobody, like that of a deleted row.
QuantityValues == <<0, 30, -1>>
\* Prices an administrator enters.
Prices == {80, 120}
\* Quantities an administrator sets.
AdminQtys == {0, 40}

\* The first two rows of sample_menu: id -> (price, sku, active).
SampleMenu ==
    (1 :> [price |-> 80, sku |-> "ESP-01", active |-> TRUE]) @@
    (2 :> [price |-> 120, sku |-> "CAP-01", active |-> TRUE])

VARIABLES
    menu_items,     \* table menu_items: id -> [price, sku, active]
    next_menu_id,   \* AUTOINCREMENT counter of menu_items
    inventory,      \* table inventory: sku -> quantity
    orders,         \* table orders: sequence of [total], index = id
    order_items,    \* table order_items: sequence of rows, index = id
    pc,             \* per request: position in place_order / its outcome
    form,           \* per request: request.form, id -> submitted quantity
    items,          \* per request: local list order_items
    total,          \* per request: local total
    checked,        \* per request: lines already passed by the check loop
    order_id,       \* per request: local order_id (0: not assigned)
    deducted,       \* per request: completed iterations of the commit loop
    flash,          \* per request: item named by the flash message (0: none)
    admin_pc,       \* administrative request: "idle" or "inventory"
    admin_sku,      \* sku of the pending INSERT OR IGNORE INTO inventory
    admin_ops       \* administrative requests served so far

vars == <<menu_items, next_menu_id, inventory, orders, order_items, pc, form,
          items, total, checked, order_id, deducted, flash, admin_pc,
          admin_sku, admin_ops>>

\* The ids menu_items has handed out so far (live or deleted rows).
MenuIds == 1..(next_menu_id - 1)

db == <<menu_items, next_menu_id, inventory, orders, order_items>>
locals == <<pc, form, items, total, checked, order_id, deducted, flash>>
admin == <<admin_pc, admin_sku, admin_ops>>

\* ------------------------------------------------------- pure helpers

\* Subtotal with the quantity forgotten.
SubtotalNoQty(qty, price) == price

\* subtotal = qty * m['price']
Subtotal(qty, price) == qty * price

\* The loop over the active menu rows in id order: a row is kept when the
\* submitted quantity is positive.
RECURSIVE SelectItems(_, _, _)
SelectItems(menu, f, n) ==
    IF n = 0 THEN <<>>
    ELSE LET rest == SelectItems(menu, f, n - 1) IN
         IF n \in DOMAIN menu /\ menu[n].active /\ f[n] > 0
         THEN Append(rest, [menu_id |-> n, sku |-> menu[n].sku, qty |-> f[n],
                            price |-> menu[n].price,
                            subtotal |-> Subtotal(f[n], menu[n].price)])
         ELSE rest

\* total += subtotal
RECURSIVE SumSubtotals(_)
SumSubtotals(s) ==
    IF s = <<>> THEN 0 ELSE s[1].subtotal + SumSubtotals(Tail(s))

\* Sufficient with only the presence of the record checked.
SufficientAnyQty(inv, sku, qty) == sku \in DOMAIN inv

\* not (not inv or inv['quantity'] < qty)
Sufficient(inv, sku, qty) == sku \in DOMAIN inv /\ ~(inv[sku] < qty)

\* InsertRow writing over the newest row instead of adding one.
InsertRowOverLast(table, row) ==
    IF table = <<>> THEN <<row>> ELSE [table EXCEPT ![Len(table)] = row]

\* INSERT INTO <table> ... : the new row gets the next id.
InsertRow(table, row) == Append(table, row)

\* Decrement as an overwrite: SET quantity = ? instead of quantity - ?.
DecrementOverwrite(inv, sku, qty) ==
    IF sku \in DOMAIN inv THEN [inv EXCEPT ![sku] = qty] ELSE inv

\* UPDATE inventory SET quantity = quantity - ? WHERE sku = ?
Decrement(inv, sku, qty) ==
    IF sku \in DOMAIN inv THEN [inv EXCEPT ![sku] = @ - qty] ELSE inv

\* INSERT OR IGNORE INTO inventory (sku, quantity) VALUES (?, 0)
InsertOrIgnore(inv, sku) ==
    IF sku \in DOMAIN inv THEN inv ELSE inv @@ (sku :> 0)

\* INSERT OR REPLACE INTO inventory (sku, quantity) VALUES (?, ?)
InsertOrReplace(inv, sku, qty) ==
    IF sku \in DOMAIN inv THEN [inv EXCEPT ![sku] = qty] ELSE inv @@ (sku :> qty)

\* The UNIQUE constraint on menu_items.sku, for a row other than `id`.
SkuTaken(sku, id) ==
    \E m \in DOMAIN menu_items : m # id /\ menu_items[m].sku = sku

\* ------------------------------------------------------------- Init

Init ==
    /\ menu_items = SampleMenu
    /\ next_menu_id = 3
    /\ inventory = [s \in {"ESP-01", "CAP-01"} |-> InitQty]
    /\ orders = <<>>
    /\ order_items = <<>>
    /\ pc = [p \in Procs |-> "start"]
    /\ form = [p \in Procs |-> <<>>]
    /\ items = [p \in Procs |-> <<>>]
    /\ total = [p \in Procs |-> 0]
    /\ checked = [p \in Procs |-> 0]
    /\ order_id = [p \in Procs |-> 0]
    /\ deducted = [p \in Procs |-> 0]
    /\ flash = [p \in Procs |-> 0]
    /\ admin_pc = "idle"
    /\ admin_sku = "ESP-01"
    /\ admin_ops = 0

\* ------------------------------------------------------ place_order

\* The request arrives with its form; the active menu is read once and the
\* basket and its total are built from it.
ReadMenu(p) ==
    /\ pc[p] = "start"
    /\ \A q \in Procs : q < p => pc[q] # "start"
    /\ \E c \in [MenuIds -> DOMAIN QuantityValues] :
         LET f == [id \in MenuIds |-> QuantityValues[c[id]]]
             sel == SelectItems(menu_items, f, next_menu_id - 1) IN
         /\ form' = [form EXCEPT ![p] = f]
         /\ items' = [items EXCEPT ![p] = sel]
         /\ total' = [total EXCEPT ![p] = SumSubtotals(sel)]
         /\ pc' = [pc EXCEPT ![p] = IF sel = <<>> THEN "no_items" ELSE "check"]
    /\ UNCHANGED <<db, checked, order_id, deducted, flash, admin>>

\* One iteration of the "Check inventory" loop: one SELECT of one sku.
CheckInventory(p) ==
    /\ pc[p] = "check"
    /\ LET line == items[p][checked[p] + 1] IN
       IF Sufficient(inventory, line.sku, line.qty)
       THEN /\ checked' = [checked EXCEPT ![p] = @ + 1]
            /\ pc' = [pc EXCEPT ![p] =
                   IF checked[p] + 1 = Len(items[p]) THEN "insert_order" ELSE "check"]
            /\ UNCHANGED flash
       ELSE /\ pc' = [pc EXCEPT ![p] = "insufficient"]
            /\ flash' = [flash EXCEPT ![p] = line.menu_id]
            /\ UNCHANGED checked
    /\ UNCHANGED <<db, form, items, total, order_id, deducted, admin>>

\* execute_db('INSERT INTO orders ...'), committed; lastrowid is the new id.
InsertOrder(p) ==
    /\ pc[p] = "insert_order"
    /\ orders' = InsertRow(orders, [total |-> total[p]])
    /\ order_id' = [order_id EXCEPT ![p] = Len(orders) + 1]
    /\ pc' = [pc EXCEPT ![p] = "insert_line"]
    /\ UNCHANGED <<menu_items, next_menu_id, inventory, order_items, form,
                   items, total, checked, deducted, flash, admin>>

\* execute_db('INSERT INTO order_items ...'), committed.
InsertLine(p) ==
    /\ pc[p] = "insert_line"
    /\ LET line == items[p][deducted[p] + 1] IN
       order_items' = InsertRow(order_items,
           [order_id |-> order_id[p], menu_item_id |-> line.menu_id,
            qty |-> line.qty, price |-> line.price])
    /\ pc' = [pc EXCEPT ![p] = "update_inventory"]
    /\ UNCHANGED <<menu_items, next_menu_id, inventory, orders, form, items,
                   total, checked, order_id, deducted, flash, admin>>

\* execute_db('UPDATE inventory SET quantity = quantity - ? ...'), committed.
UpdateInventory(p) ==
    /\ pc[p] = "update_inventory"
    /\ LET line == items[p][deducted[p] + 1] IN
       inventory' = Decrement(inventory, line.sku, line.qty)
    /\ deducted' = [deducted EXCEPT ![p] = @ + 1]
    /\ pc' = [pc EXCEPT ![p] =
           IF deducted[p] + 1 = Len(items[p]) THEN "placed" ELSE "insert_line"]
    /\ UNCHANGED <<menu_items, next_menu_id, orders, order_items, form, items,
                   total, checked, order_id, flash, admin>>

\* An execute_db of the commit phase raises (sqlite3.OperationalError, such
\* as "database is locked"): the statement is not applied, the exception
\* leaves place_order, and everything committed before stays committed.
Fail(p) ==
    /\ pc[p] \in {"insert_order", "insert_line", "update_inventory"}
    /\ pc' = [pc EXCEPT ![p] = "failed"]
    /\ UNCHANGED <<db, form, items, total, checked, order_id, deducted, flash,
                   admin>>

\* --------------------------------------------------- admin handlers

\* POST /admin/menu/add: INSERT INTO menu_items (IntegrityError on a taken
\* sku: nothing is written), then INSERT OR IGNORE INTO inventory.
AdminAddItem ==
    /\ admin_pc = "idle" /\ admin_ops < MaxAdminOps
    /\ \E price \in Prices, sku \in Skus, active \in BOOLEAN :
         IF SkuTaken(sku, 0)
         THEN UNCHANGED <<menu_items, next_menu_id, admin_pc, admin_sku>>
         ELSE /\ menu_items' = menu_items @@
                    (next_menu_id :> [price |-> price, sku |-> sku, active |-> active])
              /\ next_menu_id' = next_menu_id + 1
              /\ admin_pc' = "inventory"
              /\ admin_sku' = sku
    /\ admin_ops' = admin_ops + 1
    /\ UNCHANGED <<inventory, orders, order_items, locals>>

\* POST /admin/menu/edit/<id>: UPDATE menu_items (IntegrityError on a taken
\* sku: nothing is written), then INSERT OR IGNORE INTO inventory.
AdminEditItem ==
    /\ admin_pc = "idle" /\ admin_ops < MaxAdminOps
    /\ \E id \in DOMAIN menu_items, price \in Prices, sku \in Skus, active \in BOOLEAN :
         IF SkuTaken(sku, id)
         THEN UNCHANGED <<menu_items, admin_pc, admin_sku>>
         ELSE /\ menu_items' = [menu_items EXCEPT
                    ![id] = [price |-> price, sku |-> sku, active |-> active]]
              /\ admin_pc' = "inventory"
              /\ admin_sku' = sku
    /\ admin_ops' = admin_ops + 1
    /\ UNCHANGED <<next_menu_id, inventory, orders, order_items, locals>>

\* The second statement of add and edit.
AdminInsertInventory ==
    /\ admin_pc = "inventory"
    /\ inventory' = InsertOrIgnore(inventory, admin_sku)
    /\ admin_pc' = "idle"
    /\ UNCHANGED <<menu_items, next_menu_id, orders, order_items, locals,
                   admin_sku, admin_ops>>

\* GET /admin/menu/delete/<id>
AdminDeleteItem ==
    /\ admin_pc = "idle" /\ admin_ops < MaxAdminOps
    /\ \E id \in DOMAIN menu_items :
         menu_items' = [m \in DOMAIN menu_items \ {id} |-> menu_items[m]]
    /\ admin_ops' = admin_ops + 1
    /\ UNCHANGED <<next_menu_id, inventory, orders, order_items, locals,
                   admin_pc, admin_sku>>

\* POST /admin/inventory
AdminUpdateInventory ==
    /\ admin_pc = "idle" /\ admin_ops < MaxAdminOps
    /\ \E sku \in Skus, qty \in AdminQtys :
         inventory' = InsertOrReplace(inventory, sku, qty)
    /\ admin_ops' = admin_ops + 1
    /\ UNCHANGED <<menu_items, next_menu_id, orders, order_items, locals,
                   admin_pc, admin_sku>>

\* ------------------------------------------------------------ specs

PlaceOrderStep ==
    \E p \in Procs :
        \/ ReadMenu(p)
        \/ CheckInventory(p)
        \/ InsertOrder(p)
        \/ InsertLine(p)
        \/ UpdateInventory(p)

Next ==
    \/ PlaceOrderStep
    \/ \E p \in Procs : Fail(p)
    \/ AdminAddItem
    \/ AdminEditItem
    \/ AdminInsertInventory
    \/ AdminDeleteItem
    \/ AdminUpdateInventory

\* Every handler, any interleaving.
Spec == Init /\ [][Next]_vars

\* Only place_order requests, none failing, no administrative change.
SpecOrders == Init /\ [][PlaceOrderStep]_vars

\* ------------------------------------------------- derived notions

\* The ids of the order_items rows of order `oid`.
LinesOf(oid) == {k \in 1..Len(order_items) : order_items[k].order_id = oid}

\* Sum of qty * price over the first n order_items rows that belong to `oid`.
RECURSIVE SumLines(_, _)
SumLines(oid, n) ==
    IF n = 0 THEN 0
    ELSE SumLines(oid, n - 1) +
         (IF order_items[n].order_id = oid
          THEN order_items[n].qty * order_items[n].price ELSE 0)

\* The stock key of a recorded line: the sku of the item it references.
LineSku(row) ==
    IF row.menu_item_id \in DOMAIN menu_items
    THEN menu_items[row.menu_item_id].sku ELSE "none"

\* Orders whose place_order call returned 'Order placed'.
PlacedOrders == {order_id[p] : p \in {q \in Procs : pc[q] = "placed"}}

\* Sum of qty over the first n order_items rows of stock key s whose order
\* is in the set `oids`.
RECURSIVE SumQty(_, _, _)
SumQty(s, oids, n) ==
    IF n = 0 THEN 0
    ELSE SumQty(s, oids, n - 1) +
         (IF order_items[n].order_id \in oids /\ LineSku(order_items[n]) = s
          THEN order_items[n].qty ELSE 0)

AllOrders == 1..Len(orders)

\* Line k of request p's basket is recorded under p's order.
LineRecorded(p, k) ==
    \E r \in LinesOf(order_id[p]) :
        /\ order_items[r].menu_item_id = items[p][k].menu_id
        /\ order_items[r].qty = items[p][k].qty
        /\ order_items[r].price = items[p][k].price

\* Request p is between its first and its last write.
Writing(p) == pc[p] \in {"insert_line", "update_inventory"}

\* ----------------------------------------------------------- claims

\* C1 (as claimed; violated by the code).  No oversell: with a fixed
\* starting inventory and no administrative change, for every stock key the
\* quantities of that key in successfully placed orders sum to at most the
\* starting on-hand quantity, under every interleaving of place_order calls.
C1_NoOversell ==
    \A s \in DOMAIN inventory :
        SumQty(s, PlacedOrders, Len(order_items)) <= InitQty

\* C2 (as claimed; violated by the code).  Order creation and inventory
\* deduction are one atomic unit: in every database state another request
\* can observe, an order row exists only together with all of its order
\* lines and all of its inventory decrements.
C2_OrderAtomic ==
    \A p \in Procs :
        order_id[p] \in AllOrders =>
            /\ \A k \in 1..Len(items[p]) : LineRecorded(p, k)
            /\ deducted[p] = Len(items[p])

\* C3 (as claimed; violated by the code).  Inventory never goes negative:
\* starting from quantities >= 0, every inventory quantity is >= 0 in every
\* state reachable by place_order calls, in any interleaving.
C3_InventoryNonNegative ==
    \A s \in DOMAIN inventory : inventory[s] >= 0

\* C4 (as claimed; violated by the code).  Failure atomicity: after a
\* place_order attempt failed in its commit phase, no order row, no order
\* line and no inventory decrement of that attempt remains.
C4_FailureAtomic ==
    \A p \in Procs :
        pc[p] = "failed" =>
            /\ order_id[p] \notin AllOrders
            /\ LinesOf(order_id[p]) = {}
            /\ deducted[p] = 0

\* C5.  Total correctness: for every order place_order reports as placed,
\* the total reported to the caller and the total stored in the order row
\* both equal the sum of quantity x unit price over the order's stored
\* lines, and the stored lines are exactly the lines the call built from
\* the catalog prices it read, whatever the catalog holds by now.
C5_TotalCorrect ==
    \A p \in Procs :
        pc[p] = "placed" =>
            /\ orders[order_id[p]].total = total[p]
            /\ total[p] = SumLines(order_id[p], Len(order_items))
            /\ Cardinality(LinesOf(order_id[p])) = Len(items[p])
            /\ \A k \in 1..Len(items[p]) : LineRecorded(p, k)

\* C5 witness: a placed order of two lines, total 30 x 80 + 30 x 120, one of
\* whose items has had its catalog price changed since the call read it.
C5_Witness ==
    \E p \in Procs :
        /\ pc[p] = "placed"
        /\ Len(items[p]) = 2
        /\ total[p] = 6000
        /\ \E k \in 1..2 :
              /\ items[p][k].menu_id \in DOMAIN menu_items
              /\ menu_items[items[p][k].menu_id].price # items[p][k].price

\* C6.  Insufficient inventory rejects the whole order with no writes: when
\* the check reads, for a line of the basket, an on-hand quantity below the
\* requested quantity or no inventory record at all, place_order reports
\* insufficient inventory naming that item and that step writes nothing;
\* and a request rejected this way has written no order row, no order line
\* and no inventory decrement, for any line of its basket.
C6_InsufficientRejects ==
    /\ [][\A p \in Procs :
            (/\ pc[p] = "check"
             /\ <<pc[p], checked[p]>> # <<pc'[p], checked'[p]>>
             /\ LET line == items[p][checked[p] + 1] IN
                \/ line.sku \notin DOMAIN inventory
                \/ inventory[line.sku] < line.qty)
            => /\ pc'[p] = "insufficient"
               /\ flash'[p] = items[p][checked[p] + 1].menu_id
               /\ orders' = orders
               /\ order_items' = order_items
               /\ inventory' = inventory]_vars
    /\ [](\A p \in Procs :
            pc[p] = "insufficient" =>
                /\ order_id[p] = 0
                /\ \A o \in AllOrders : \E q \in Procs \ {p} : order_id[q] = o
                /\ \A r \in 1..Len(order_items) :
                      \E q \in Procs \ {p} : order_id[q] = order_items[r].order_id
                /\ deducted[p] = 0)

\* C6 witness: a basket of two lines rejected at its second line, the first
\* line's stock having been sufficient.
C6_Witness ==
    \E p \in Procs :
        /\ pc[p] = "insufficient"
        /\ Len(items[p]) = 2
        /\ checked[p] = 1
        /\ flash[p] = items[p][2].menu_id

\* C7 (as claimed; violated by the code).  A basket that references, with a
\* positive quantity, an item that does not exist or is inactive is rejected
\* as a whole: place_order never writes an order for it.  Every item with a
\* positive quantity in the form of a request that wrote an order row is
\* therefore a line of that request's basket.
C7_NoPartialAcceptance ==
    \A p \in Procs :
        order_id[p] \in AllOrders =>
            \A id \in DOMAIN form[p] :
                form[p][id] > 0 =>
                    \E k \in 1..Len(items[p]) : items[p][k].menu_id = id

\* C8 (as claimed; violated by the code).  A basket entry with a negative
\* quantity makes place_order reject the request and write nothing: it is
\* never dropped while the positive entries of the basket are placed, so no
\* request that wrote an order row has a negative quantity in its form.
C8_NegativeRejected ==
    \A p \in Procs :
        order_id[p] \in AllOrders =>
            \A id \in DOMAIN form[p] : form[p][id] >= 0

\* C9.  Committed orders are immutable: no step of any handler changes or
\* removes a row of orders or of order_items once written, and once
\* place_order has reported an order placed its set of lines never changes;
\* so each line keeps the unit price stored when the order was placed.
C9_OrdersImmutable ==
    [][/\ Len(orders') >= Len(orders)
       /\ \A o \in 1..Len(orders) : orders'[o] = orders[o]
       /\ Len(order_items') >= Len(order_items)
       /\ \A r \in 1..Len(order_items) : order_items'[r] = order_items[r]
       /\ \A p \in Procs :
             pc[p] = "placed" =>
                 /\ pc'[p] = "placed"
                 /\ order_id'[p] = order_id[p]
                 /\ LinesOf(order_id[p])' = LinesOf(order_id[p])]_vars

\* C9 witness: two orders are recorded, and an item of a placed order's line
\* has since been deleted from the catalog or had its price changed.
C9_Witness ==
    /\ Len(orders) = 2
    /\ \E p \in Procs :
          /\ pc[p] = "placed"
          /\ \E r \in LinesOf(order_id[p]) :
                \/ order_items[r].menu_item_id \notin DOMAIN menu_items
                \/ menu_items[order_items[r].menu_item_id].price
                       # order_items[r].price

\* C10.  Stock conservation: with no administrative change and no failure,
\* in every state where no place_order call is between its first and last
\* write, for every stock key the starting quantity minus the current
\* quantity equals the sum of the quantities of all recorded order lines of
\* the item with that stock key.
C10_StockConserved ==
    (\A p \in Procs : ~Writing(p)) =>
        \A s \in DOMAIN inventory :
            InitQty - inventory[s] = SumQty(s, AllOrders, Len(order_items))

\* C10 witness: both requests have placed an order on the same stock key and
\* nobody is writing.
C10_Witness ==
    /\ \A p \in Procs : pc[p] = "placed"
    /\ \E s \in DOMAIN inventory :
          SumQty(s, AllOrders, Len(order_items)) > 30

====
